---- MODULE Spec2Model ----
(***************************************************************************)
(* tuiscope: the FuzzyFinder state (src/src/data.rs) as a state machine.   *)
(*                                                                         *)
(* Texts and filters are sequences of one-character strings.  Rust's       *)
(* Option<T> is a sequence of length at most one: None is <<>> and Some(x) *)
(* is <<x>>.  Indices into the store are 0-based as in the source; the     *)
(* store itself is a TLA+ sequence, so entry i lives at matches[i + 1].    *)
(***************************************************************************)
EXTENDS Integers, Sequences, FiniteSets, TLC

\* ------------------------------------------------------------------ bounds
\* longest option / key list handed to push_options, set_options and
\* remove_options in one call
MaxList == 2

\* ---------------------------------------------------------------- universe
\* the candidate texts a caller may push
Options == { <<"a", "b">>, <<"b", "a">>, <<"c">> }

\* the filter terms a caller may set
Filters == { <<>>, <<"a">>, <<"b">> }

\* every list of at most MaxList candidate texts (duplicates allowed)
OptionLists == UNION { [1..n -> Options] : n \in 0..MaxList }

\* ------------------------------------------------------------------ Option
None == <<>>

Some(x) == <<x>>

is_none(o) == o = <<>>

is_some(o) == o # <<>>

unwrap(o) == o[1]

Min(a, b) == IF a < b THEN a ELSE b

\* ------------------------------------------------------------------ scorer
\* The scorer is the fuzzy_matcher crate (SkimMatcherV2), which the finder
\* only calls.  It is represented by a pure function with the scorer's
\* contract: None unless the filter is a subsequence of the text, otherwise
\* a score and the ascending matched positions; the empty filter matches
\* every text with score 0 and no positions.
\* first 1-based position >= from at which value holds ch, 0 when there is none
RECURSIVE find_from(_, _, _)
find_from(value, ch, from) ==
    IF from > Len(value) THEN 0
    ELSE IF value[from] = ch THEN from
    ELSE find_from(value, ch, from + 1)

\* leftmost subsequence match of pattern in value starting at 1-based `from`:
\* None, or Some(the 0-based matched positions, ascending)
RECURSIVE match_from(_, _, _)
match_from(value, pattern, from) ==
    IF pattern = <<>> THEN Some(<<>>)
    ELSE LET k == find_from(value, Head(pattern), from) IN
         IF k = 0 THEN None
         ELSE LET rest == match_from(value, Tail(pattern), k + 1) IN
              IF is_none(rest) THEN None
              ELSE Some(<<k - 1>> \o unwrap(rest))

\* score of a match: 16 per matched character, 8 when the match starts the
\* text, 4 per pair of adjacent matched positions, minus the leading gap
RECURSIVE adjacent_pairs(_)
adjacent_pairs(indices) ==
    IF Len(indices) < 2 THEN 0
    ELSE (IF indices[2] = indices[1] + 1 THEN 1 ELSE 0)
         + adjacent_pairs(Tail(indices))

score_of(indices) ==
    IF indices = <<>> THEN 0
    ELSE 16 * Len(indices)
         + (IF indices[1] = 0 THEN 8 ELSE 0)
         + 4 * adjacent_pairs(indices)
         - indices[1]

\* matcher.fuzzy_indices(value, filter).map(|(score, indices)| FuzzyScore {..})
fuzzy_indices(value, pattern) ==
    LET m == match_from(value, pattern, 1) IN
    IF is_none(m) THEN None
    ELSE Some([score |-> score_of(unwrap(m)), indices |-> unwrap(m)])

\* ---------------------------------------------------------------- ordering
\* i64::cmp
i64_cmp(a, b) == IF a < b THEN "Less" ELSE IF a > b THEN "Greater" ELSE "Equal"

\* the comparison with the operands the right way round (ascending score)
FuzzyScore_cmp_ascending(self, other) == i64_cmp(self.score, other.score)

\* impl Ord for FuzzyScore: reversed, so that ascending order is highest first
FuzzyScore_cmp(self, other) == i64_cmp(other.score, self.score)

\* the closure with the None arms swapped
sort_compare_none_first(v1, v2) ==
    IF is_some(v1)
    THEN IF is_some(v2) THEN FuzzyScore_cmp(unwrap(v1), unwrap(v2))
         ELSE "Greater"
    ELSE "Less"

\* the closure handed to par_sort_unstable_by in update_matches
sort_compare(v1, v2) ==
    IF is_some(v1)
    THEN IF is_some(v2) THEN FuzzyScore_cmp(unwrap(v1), unwrap(v2))
         ELSE "Less"
    ELSE "Greater"

\* the sort only ever asks whether compare(a, b) is Less
is_less(v1, v2) == sort_compare(v1, v2) = "Less"

\* all bijections of 1..n
Perms(n) == { p \in [1..n -> 1..n] : \A i, j \in 1..n : i # j => p[i] # p[j] }

\* no later entry is less than an earlier one
is_sorted(m) ==
    \A i, j \in 1..Len(m) : i < j => ~is_less(m[j].score, m[i].score)

\* a sort that may rearrange equal entries of a store already in order
par_sort_unstable_by_reshuffling(m) ==
    { t \in { [i \in 1..Len(m) |-> m[p[i]]] : p \in Perms(Len(m)) } :
        is_sorted(t) }

\* IndexMap::par_sort_unstable_by: every store the sort may leave.  A store
\* already in order is left as it is (the sort moves an entry only when it
\* finds one less than an earlier one); otherwise the result is some
\* rearrangement that is in order, and because the sort is unstable the order
\* of entries that compare equal is not determined.  Two None results compare
\* Greater both ways, which is_less reads as "not less", so they count as
\* equal.
par_sort_unstable_by(m) ==
    IF is_sorted(m) THEN { m }
    ELSE { t \in { [i \in 1..Len(m) |-> m[p[i]]] : p \in Perms(Len(m)) } :
             is_sorted(t) }

\* --------------------------------------------------------------- highlight
\* src/src/highlight.rs.  A &str is a sequence of characters, each a
\* one-character string; in memory it is UTF-8, where "a" and "b" take one
\* byte each and "E", which stands for a character such as e acute, takes
\* two.  Ranges and str::len count bytes.

\* longest text, in characters, handed to sections_from_stringdices
MaxChars == 3

\* longest index list handed to sections_from_stringdices
MaxIndices == 2

Chars == { "a", "b", "E" }

\* char::len_utf8: bytes of the UTF-8 encoding of a character
len_utf8(ch) == IF ch = "E" THEN 2 ELSE 1

Strings == UNION { [1..n -> Chars] : n \in 0..MaxChars }

\* the index lists: any values up to the longest byte length, in any order
IndexLists == UNION { [1..n -> 0..(2 * MaxChars)] : n \in 0..MaxIndices }

\* str::len: the length in bytes
RECURSIVE str_len(_)
str_len(string) ==
    IF string = <<>> THEN 0
    ELSE len_utf8(Head(string)) + str_len(Tail(string))

\* byte offset at which the character at 1-based place k starts
byte_offset(string, k) == str_len(SubSeq(string, 1, k - 1))

\* str::is_char_boundary
is_char_boundary(string, b) ==
    \/ b = str_len(string)
    \/ \E k \in 1..Len(string) : byte_offset(string, k) = b

\* str::get(start..end): the characters lying in the byte range, None when
\* the range is reversed, runs past the end or cuts a character
str_get(string, start, end) ==
    IF /\ start <= end
       /\ end <= str_len(string)
       /\ is_char_boundary(string, start)
       /\ is_char_boundary(string, end)
    THEN Some(SelectSeq([k \in 1..Len(string) |->
                            [ch |-> string[k], at |-> byte_offset(string, k)]],
                        LAMBDA c : start <= c.at /\ c.at < end))
    ELSE None

\* the characters of a slice returned by str_get
chars_of(slice) == [k \in 1..Len(slice) |-> slice[k].ch]

\* Result
Ok(x) == [tag |-> "Ok", val |-> x]

Err(e) == [tag |-> "Err", val |-> e]

is_ok(r) == r.tag = "Ok"

\* get_substring: Ok(the slice) or Err(SubstringNotFound)
get_substring(string, start, end) ==
    LET sub == str_get(string, start, end) IN
    IF is_some(sub) THEN Ok(chars_of(unwrap(sub)))
    ELSE Err([start |-> start, end |-> end, string |-> string])

\* an inner loop that never joins a following index to the run
extend_run_no_merge(indices, j) == [rest |-> indices, j |-> j]

\* the inner while loop: consume the indices that do not exceed j, counting
\* j up by one for each; gives the indices left and the final j
RECURSIVE extend_run(_, _)
extend_run(indices, j) ==
    IF indices = <<>> \/ Head(indices) > j THEN [rest |-> indices, j |-> j]
    ELSE extend_run(Tail(indices), j + 1)

\* the loop of sections_from_stringdices from the state (ret, indices, i)
RECURSIVE sections_loop(_, _, _, _)
sections_loop(string, ret, indices, i) ==
    IF indices = <<>>
    THEN IF i < str_len(string)
         THEN LET sub == get_substring(string, i, str_len(string)) IN
              IF is_ok(sub)
              THEN Ok(Append(ret, [kind |-> "None", text |-> sub.val]))
              ELSE sub
         ELSE Ok(ret)
    ELSE LET m    == Head(indices)
             gap  == get_substring(string, i, m)
             ret1 == IF m > 0
                     THEN Append(ret, [kind |-> "None", text |-> gap.val])
                     ELSE ret
             run  == extend_run(Tail(indices), m + 1)
             sub  == get_substring(string, m, run.j)
         IN  IF m > 0 /\ ~is_ok(gap) THEN gap
             ELSE IF ~is_ok(sub) THEN sub
             ELSE sections_loop(string,
                                Append(ret1, [kind |-> "Matched",
                                              text |-> sub.val]),
                                run.rest, run.j)

\* sections_from_stringdices
sections_from_stringdices(string, indices) ==
    sections_loop(string, <<>>, indices, 0)

\* ------------------------------------------------------------------- state
\* filter     FuzzyFinder.filter
\* matches    FuzzyFinder.matches, the IndexMap in iteration order; each entry
\*            is [key, score] with score an Option<FuzzyScore>
\* state      FuzzyFinder.state, the ListState; selected is an Option<usize>
\* ret        what the last selection() call returned; the entry borrows from
\*            the finder, so it is gone once a &mut self method runs
\* last_call  the public method that returned last
\* old_selected  state.selected() when that method was entered
\* inserted   the keys now in the store, in the order they were first pushed
\* last_arg   the argument of that method (<<>> when it takes none)
\* repeated   whether the call before it was the same method with the same
\*            argument
\* old_filter, old_matches  the filter and the store when that method was
\*            entered
\* scored     the keys on which that method invoked the scorer
\* hl_string, hl_indices  the arguments of a sections_from_stringdices call
\* hl_ret     None until the call has returned, then Some(its Result)
\* rd_height  area.height of the last call when it was FuzzyList::render
\* rd_list    Some(the lines of the ListItems that call handed to List::new),
\*            None when the last call was not render
\* up_pc      where the running update_matches stands: "score" (the parallel
\*            pass), "sort", "reset", or "idle" when no call is running
\* up_tasks   the entries (1-based places) whose scoring task has yet to run
\* up_start   the store when the scoring pass began
\* up_flag    new_filter_term of the running update_matches
VARIABLES filter, matches, state, ret, last_call, old_selected, inserted,
          last_arg, repeated, old_filter, old_matches, scored,
          hl_string, hl_indices, hl_ret,
          rd_height, rd_list,
          up_pc, up_tasks, up_start, up_flag

finder_vars == <<filter, matches, state, ret, last_call, old_selected,
                 inserted, last_arg, repeated, old_filter, old_matches,
                 scored>>

hl_vars == <<hl_string, hl_indices, hl_ret>>

rd_vars == <<rd_height, rd_list>>

up_vars == <<up_pc, up_tasks, up_start, up_flag>>

vars == <<finder_vars, hl_vars, rd_vars, up_vars>>

\* ----------------------------------------------------------------- helpers
keys_of(m) == { m[i].key : i \in 1..Len(m) }

\* number of entries whose cached result is Some
matched_count(m) == Cardinality({ i \in 1..Len(m) : is_some(m[i].score) })

\* reset that selects the 0th line even when there is no line
reset_selection_always_first(m) == Some(0)

\* FuzzyFinder::reset_selection: the new state.selected()
reset_selection(m) == IF Len(m) = 0 THEN None ELSE Some(0)

\* select without the clamp to the last entry
select_unclamped(m, index) ==
    IF Len(m) < 1 THEN reset_selection(m)
    ELSE Some(index)

\* FuzzyFinder::select
select(m, index) ==
    IF Len(m) < 1 THEN reset_selection(m)
    ELSE Some(Min(index, Len(m) - 1))

\* get_index reading one slot too far
get_index_off_by_one(m, i) == IF i + 1 < Len(m) THEN Some(m[i + 2]) ELSE None

\* IndexMap::get_index
get_index(m, i) == IF i < Len(m) THEN Some(m[i + 1]) ELSE None

\* a push that appends without looking for the key
_push_option_append(m, option) ==
    Append(m, [key |-> option, score |-> None])

\* FuzzyFinder::_push_option: entry(option).or_insert(None)
_push_option(m, option) ==
    IF option \in keys_of(m) THEN m
    ELSE Append(m, [key |-> option, score |-> None])

\* the for loop of push_options
RECURSIVE push_each(_, _)
push_each(m, options) ==
    IF options = <<>> THEN m
    ELSE push_each(_push_option(m, Head(options)), Tail(options))

\* IndexMap::clear that leaves the entries in place
clear_keeps_entries(m) == m

\* IndexMap::clear
clear(m) == <<>>

\* IndexMap::swap_remove: the last entry takes the place of the removed one
swap_remove(m, key) ==
    IF \E i \in 1..Len(m) : m[i].key = key
    THEN LET i == CHOOSE k \in 1..Len(m) : m[k].key = key IN
         [k \in 1..(Len(m) - 1) |-> IF k = i THEN m[Len(m)] ELSE m[k]]
    ELSE m

\* IndexMap::shift_remove: drop the entry, keep the order of the others
shift_remove(m, key) == SelectSeq(m, LAMBDA e : e.key # key)

\* the for loop of remove_options
RECURSIVE remove_each(_, _)
remove_each(m, keys) ==
    IF keys = <<>> THEN m
    ELSE remove_each(shift_remove(m, Head(keys)), Tail(keys))

\* a pass that scores only the entries holding None, whatever the flag
score_pass_unscored_only(m, f, new_filter_term) ==
    [i \in 1..Len(m) |->
        IF is_none(m[i].score)
        THEN [key |-> m[i].key, score |-> fuzzy_indices(m[i].key, f)]
        ELSE m[i]]

\* a pass that scores nothing unless the flag is set
score_pass_full_only(m, f, new_filter_term) ==
    [i \in 1..Len(m) |->
        IF new_filter_term
        THEN [key |-> m[i].key, score |-> fuzzy_indices(m[i].key, f)]
        ELSE m[i]]

\* a pass that drops the entries the filter does not match
score_pass_dropping_unmatched(m, f, new_filter_term) ==
    SelectSeq([i \in 1..Len(m) |->
                  IF new_filter_term \/ is_none(m[i].score)
                  THEN [key |-> m[i].key, score |-> fuzzy_indices(m[i].key, f)]
                  ELSE m[i]],
              LAMBDA e : is_some(e.score))

\* the scoring pass of update_matches
score_pass(m, f, new_filter_term) ==
    [i \in 1..Len(m) |->
        IF new_filter_term \/ is_none(m[i].score)
        THEN [key |-> m[i].key, score |-> fuzzy_indices(m[i].key, f)]
        ELSE m[i]]

\* the entries the filter of the scoring pass lets through to the scorer
scored_by(m, new_filter_term) ==
    { m[i].key : i \in { k \in 1..Len(m) :
                            new_filter_term \/ is_none(m[k].score) } }

\* FuzzyFinder::update_matches: every store the call may leave behind
update_matches(m, f, new_filter_term) ==
    par_sort_unstable_by(score_pass(m, f, new_filter_term))

\* the insertion history after pushing the options / dropping the keys
RECURSIVE note_pushed(_, _)
note_pushed(h, options) ==
    IF options = <<>> THEN h
    ELSE note_pushed(IF \E i \in 1..Len(h) : h[i] = Head(options)
                     THEN h ELSE Append(h, Head(options)),
                     Tail(options))

note_removed(h, keys) ==
    SelectSeq(h, LAMBDA k : \A i \in 1..Len(keys) : keys[i] # k)

\* what every &mut self method records on return
Entered(name, arg) ==
    /\ last_call' = name
    /\ last_arg' = arg
    /\ repeated' = (last_call = name /\ last_arg = arg)
    /\ old_selected' = state.selected
    /\ old_filter' = filter
    /\ old_matches' = matches
    /\ rd_height' = 0
    /\ rd_list' = None
    /\ UNCHANGED <<hl_vars, up_vars>>

Returned(name, arg) ==
    /\ Entered(name, arg)
    /\ ret' = None

\* update_matches followed by its reset_selection, on the store m
Rescored(m, f, new_filter_term) ==
    \E m2 \in update_matches(m, f, new_filter_term) :
        /\ matches' = m2
        /\ state' = [state EXCEPT !.selected = reset_selection(m2)]
        /\ scored' = scored_by(m, new_filter_term)

\* -------------------------------------------------------------------- Init
\* FuzzyFinder::default()
InitFinder ==
    /\ filter = <<>>
    /\ matches = <<>>
    /\ state = [selected |-> None]
    /\ ret = None
    /\ last_call = "default"
    /\ old_selected = None
    /\ inserted = <<>>
    /\ last_arg = <<>>
    /\ repeated = FALSE
    /\ old_filter = <<>>
    /\ old_matches = <<>>
    /\ scored = {}
    /\ rd_height = 0
    /\ rd_list = None
    /\ up_pc = "idle"
    /\ up_tasks = {}
    /\ up_start = <<>>
    /\ up_flag = FALSE

Init ==
    /\ InitFinder
    /\ hl_string = <<>>
    /\ hl_indices = <<>>
    /\ hl_ret = None

\* ----------------------------------------------------------------- actions
\* clear_filter running the incremental pass
clear_filter_incremental ==
    /\ filter' = <<>>
    /\ Rescored(matches, <<>>, FALSE)
    /\ Returned("clear_filter", <<>>)
    /\ UNCHANGED inserted

clear_filter ==
    /\ filter' = <<>>
    /\ Rescored(matches, <<>>, TRUE)
    /\ Returned("clear_filter", <<>>)
    /\ UNCHANGED inserted

\* set_filter running the incremental pass
set_filter_incremental(f) ==
    /\ filter' = f
    /\ Rescored(matches, f, FALSE)
    /\ Returned("set_filter", f)
    /\ UNCHANGED inserted

set_filter(f) ==
    /\ filter' = f
    /\ Rescored(matches, f, TRUE)
    /\ Returned("set_filter", f)
    /\ UNCHANGED inserted

select_next ==
    /\ state' = [state EXCEPT !.selected =
                    IF is_some(state.selected)
                    THEN select(matches, unwrap(state.selected) + 1)
                    ELSE reset_selection(matches)]
    /\ Returned("select_next", <<>>)
    /\ scored' = {}
    /\ UNCHANGED <<filter, matches, inserted>>

select_prev ==
    /\ state' = [state EXCEPT !.selected =
                    IF is_some(state.selected)
                    THEN IF unwrap(state.selected) > 0
                         THEN select(matches, unwrap(state.selected) - 1)
                         ELSE state.selected
                    ELSE reset_selection(matches)]
    /\ Returned("select_prev", <<>>)
    /\ scored' = {}
    /\ UNCHANGED <<filter, matches, inserted>>

\* FuzzyFinder::selection: the value it returns
selection_value(m, sel) ==
    IF is_none(sel) THEN None
    ELSE LET e == get_index(m, unwrap(sel)) IN
         IF is_none(e) THEN None
         ELSE IF is_none(unwrap(e).score) THEN None
         ELSE Some([value   |-> unwrap(e).key,
                    indices |-> unwrap(unwrap(e).score).indices,
                    score   |-> unwrap(unwrap(e).score).score])

\* a selection() that takes the entry it returns out of the store
selection_taking ==
    /\ ret' = selection_value(matches, state.selected)
    /\ Entered("selection", <<>>)
    /\ scored' = {}
    /\ matches' = IF is_some(selection_value(matches, state.selected))
                  THEN shift_remove(matches,
                           unwrap(selection_value(matches,
                                                  state.selected)).value)
                  ELSE matches
    /\ UNCHANGED <<filter, state, inserted>>

selection ==
    /\ ret' = selection_value(matches, state.selected)
    /\ Entered("selection", <<>>)
    /\ scored' = {}
    /\ UNCHANGED <<filter, matches, state, inserted>>

push_options(options) ==
    /\ Rescored(push_each(matches, options), filter, FALSE)
    /\ inserted' = note_pushed(inserted, options)
    /\ Returned("push_options", options)
    /\ UNCHANGED filter

set_options(options) ==
    /\ Rescored(push_each(clear(matches), options), filter, FALSE)
    /\ inserted' = note_pushed(<<>>, options)
    /\ Returned("set_options", options)
    /\ UNCHANGED filter

\* the builder: set_options on the finder it is handed, which it gives back
with_options(options) ==
    /\ Rescored(push_each(clear(matches), options), filter, FALSE)
    /\ inserted' = note_pushed(<<>>, options)
    /\ Returned("with_options", options)
    /\ UNCHANGED filter

push_option(option) ==
    /\ Rescored(_push_option(matches, option), filter, FALSE)
    /\ inserted' = note_pushed(inserted, <<option>>)
    /\ Returned("push_option", option)
    /\ UNCHANGED filter

remove_option(key) ==
    /\ matches' = shift_remove(matches, key)
    /\ inserted' = note_removed(inserted, <<key>>)
    /\ Returned("remove_option", key)
    /\ scored' = {}
    /\ UNCHANGED <<filter, state>>

remove_options(keys) ==
    /\ matches' = remove_each(matches, keys)
    /\ inserted' = note_removed(inserted, keys)
    /\ Returned("remove_options", keys)
    /\ scored' = {}
    /\ UNCHANGED <<filter, state>>

Next ==
    \/ clear_filter
    \/ \E f \in Filters : set_filter(f)
    \/ select_next
    \/ select_prev
    \/ selection
    \/ \E options \in OptionLists : push_options(options)
    \/ \E options \in OptionLists : set_options(options)
    \/ \E options \in OptionLists : with_options(options)
    \/ \E option \in Options : push_option(option)
    \/ \E key \in Options : remove_option(key)
    \/ \E keys \in OptionLists : remove_options(keys)

Spec == Init /\ [][Next]_vars

\* ---------------------------------------------- the finder without removals
\* the calls that push, filter and move the cursor; nothing is ever removed
NextNoRemoval ==
    \/ clear_filter
    \/ \E f \in Filters : set_filter(f)
    \/ select_next
    \/ select_prev
    \/ \E options \in OptionLists : push_options(options)
    \/ \E options \in OptionLists : set_options(options)
    \/ \E option \in Options : push_option(option)

SpecNoRemoval == Init /\ [][NextNoRemoval]_vars

\* ------------------------------------------------- the segmenter on its own
\* any text and any index list, before the call
InitSections ==
    /\ InitFinder
    /\ hl_string \in Strings
    /\ hl_indices \in IndexLists
    /\ hl_ret = None

\* one call of sections_from_stringdices
sections_call ==
    /\ is_none(hl_ret)
    /\ hl_ret' = Some(sections_from_stringdices(hl_string, hl_indices))
    /\ UNCHANGED <<finder_vars, hl_string, hl_indices, rd_vars, up_vars>>

NextSections == sections_call

SpecSections == InitSections /\ [][NextSections]_vars

\* ------------------------------------------------------ the list widget
\* src/src/widget.rs.  A Line is its sequence of Spans; a Span is its text
\* and the style field of the widget it is drawn with.

\* tallest area handed to render
MaxHeight == 2

Heights == 0..MaxHeight

\* the candidate texts of the rendered finder: "E", "a" is two bytes then one
RenderOptions == { <<"a", "b">>, <<"E", "a">>, <<"b", "b", "a">> }

RenderOptionLists == UNION { [1..n -> RenderOptions] : n \in 0..MaxList }

\* the closure of styled_line: one Span per section
span_of(section) ==
    [content |-> section.text,
     style   |-> IF section.kind = "Matched" THEN "matched_char_style"
                 ELSE "unmatched_char_style"]

\* FuzzyList::styled_line
styled_line(value, indices) ==
    LET sections == sections_from_stringdices(value, indices) IN
    IF is_ok(sections)
    THEN Ok([k \in 1..Len(sections.val) |-> span_of(sections.val[k])])
    ELSE sections

\* the closure of filter_map: Some(line) for an entry with a cached score
\* whose styled_line is Ok, None for every other entry
line_of(e) ==
    IF is_none(e.score) THEN None
    ELSE LET line == styled_line(e.key, unwrap(e.score).indices) IN
         IF is_ok(line) THEN Some(line.val) ELSE None

\* filter_map over the store: the lines of the entries that have one
RECURSIVE filter_map(_)
filter_map(m) ==
    IF m = <<>> THEN <<>>
    ELSE line_of(Head(m)) \o filter_map(Tail(m))

\* Iterator::take
take(seq, n) == SubSeq(seq, 1, Min(n, Len(seq)))

\* a row builder that gives up at the first entry without a line
RECURSIVE lines_until_error(_)
lines_until_error(m) ==
    IF m = <<>> \/ is_none(line_of(Head(m))) THEN <<>>
    ELSE line_of(Head(m)) \o lines_until_error(Tail(m))

render_list_until_error(m, height, selected) ==
    take(lines_until_error(m),
         height + (IF is_some(selected) THEN unwrap(selected) ELSE 0))

\* the Vec<ListItem> built by FuzzyList::render
render_list(m, height, selected) ==
    take(filter_map(m),
         height + (IF is_some(selected) THEN unwrap(selected) ELSE 0))

\* FuzzyList::render with an area of the given height.  The List widget the
\* rows are handed to draws them and keeps its scroll offset in the
\* ListState; the offset is not part of this model.
render(height) ==
    /\ rd_height' = height
    /\ rd_list' = Some(render_list(matches, height, state.selected))
    /\ last_call' = "render"
    /\ last_arg' = height
    /\ repeated' = FALSE
    /\ old_selected' = state.selected
    /\ old_filter' = filter
    /\ old_matches' = matches
    /\ ret' = None
    /\ scored' = {}
    /\ UNCHANGED <<filter, matches, state, inserted, hl_vars, up_vars>>

\* a finder over texts with multi-byte characters, and its widget
NextRender ==
    \/ \E options \in RenderOptionLists : push_options(options)
    \/ \E key \in RenderOptions : remove_option(key)
    \/ \E f \in Filters : set_filter(f)
    \/ select_next
    \/ \E height \in Heights : render(height)

SpecRender == Init /\ [][NextRender]_vars

\* ------------------------------------------- update_matches step by step
\* update_matches as the steps it is made of: the parallel scoring pass, in
\* which rayon runs one task per entry let through by the filter, in any
\* order; the join at the end of for_each; the sort; the reset of the
\* selection; the return.  The method holds &mut self from entry to return,
\* so no other method of the finder runs in between.

\* a task that writes its result to the first slot instead of its own
score_entry_first_slot(m, i, f) ==
    [m EXCEPT ![1].score = fuzzy_indices(m[i].key, f)]

\* the closure of for_each on entry i: score the entry's own text against
\* the filter and write the result to the entry's own slot
score_entry(m, i, f) ==
    [m EXCEPT ![i].score = fuzzy_indices(m[i].key, f)]

\* the entries the filter of the pass lets through
tasks_of(m, new_filter_term) ==
    { i \in 1..Len(m) : new_filter_term \/ is_none(m[i].score) }

\* a for_each that returns while tasks are still to run
for_each_done_early(tasks) == TRUE

\* for_each returns once every task has run
for_each_done(tasks) == tasks = {}

\* entry into update_matches on the store m
update_matches_enter(m, new_filter_term) ==
    /\ up_pc = "idle"
    /\ matches' = m
    /\ up_pc' = "score"
    /\ up_start' = m
    /\ up_flag' = new_filter_term
    /\ up_tasks' = tasks_of(m, new_filter_term)
    /\ scored' = {}
    /\ ret' = None
    /\ old_selected' = state.selected
    /\ old_filter' = filter
    /\ old_matches' = matches
    /\ repeated' = FALSE
    /\ UNCHANGED <<state, hl_vars, rd_vars>>

\* set_filter up to the start of the scoring pass
set_filter_enter(f) ==
    /\ filter' = f
    /\ update_matches_enter(matches, TRUE)
    /\ last_call' = "set_filter"
    /\ last_arg' = f
    /\ UNCHANGED inserted

\* push_options up to the start of the scoring pass
push_options_enter(options) ==
    /\ update_matches_enter(push_each(matches, options), FALSE)
    /\ last_call' = "push_options"
    /\ last_arg' = options
    /\ inserted' = note_pushed(inserted, options)
    /\ UNCHANGED filter

\* one scoring task runs
update_matches_score(i) ==
    /\ up_pc = "score"
    /\ i \in up_tasks
    /\ matches' = score_entry(matches, i, filter)
    /\ up_tasks' = up_tasks \ { i }
    /\ scored' = scored \cup { matches[i].key }
    /\ UNCHANGED <<filter, state, ret, last_call, old_selected, inserted,
                   last_arg, repeated, old_filter, old_matches,
                   up_pc, up_start, up_flag, hl_vars, rd_vars>>

\* for_each returns
update_matches_join ==
    /\ up_pc = "score"
    /\ for_each_done(up_tasks)
    /\ up_pc' = "sort"
    /\ UNCHANGED <<finder_vars, up_tasks, up_start, up_flag, hl_vars, rd_vars>>

\* par_sort_unstable_by
update_matches_sort ==
    /\ up_pc = "sort"
    /\ matches' \in par_sort_unstable_by(matches)
    /\ up_pc' = "reset"
    /\ UNCHANGED <<filter, state, ret, last_call, old_selected, inserted,
                   last_arg, repeated, old_filter, old_matches, scored,
                   up_tasks, up_start, up_flag, hl_vars, rd_vars>>

\* reset_selection
update_matches_reset ==
    /\ up_pc = "reset"
    /\ state' = [state EXCEPT !.selected = reset_selection(matches)]
    /\ up_pc' = "return"
    /\ UNCHANGED <<filter, matches, ret, last_call, old_selected, inserted,
                   last_arg, repeated, old_filter, old_matches, scored,
                   up_tasks, up_start, up_flag, hl_vars, rd_vars>>

\* update_matches and the public method that called it return
update_matches_return ==
    /\ up_pc = "return"
    /\ up_pc' = "idle"
    /\ UNCHANGED <<finder_vars, up_tasks, up_start, up_flag, hl_vars, rd_vars>>

\* a caller reads the ranked view: possible only while no &mut self method
\* is running
read_selection ==
    /\ up_pc = "idle"
    /\ selection

\* a caller moves the cursor, likewise only between two calls
move_selection ==
    /\ up_pc = "idle"
    /\ select_next

NextUpdate ==
    \/ \E f \in Filters : set_filter_enter(f)
    \/ \E options \in OptionLists : push_options_enter(options)
    \/ \E i \in 1..Len(matches) : update_matches_score(i)
    \/ update_matches_join
    \/ update_matches_sort
    \/ update_matches_reset
    \/ update_matches_return
    \/ read_selection
    \/ move_selection

SpecUpdate == Init /\ [][NextUpdate]_vars

\* -------------------------------------------------------------- type check
TypeOK ==
    /\ filter \in Filters
    /\ keys_of(matches) \subseteq Options
    /\ Len(state.selected) <= 1
    /\ Len(ret) <= 1

\* ------------------------------------------------------------------ claims
\* the methods that end in update_matches
RescoringCalls ==
    { "set_filter", "clear_filter", "push_option", "push_options",
      "set_options" }

\* the selection the cursor is meant to have after a reset: the first
\* matched entry when there is one, nothing otherwise
reset_to_matched(m) == IF matched_count(m) > 0 THEN Some(0) ELSE None

\* 1-based place of key k in the insertion history, 0 when it is not there
inserted_at(k) ==
    IF \E i \in 1..Len(inserted) : inserted[i] = k
    THEN CHOOSE i \in 1..Len(inserted) : inserted[i] = k
    ELSE 0

\* C1: after any sequence of mutating calls the selection is None or an index
\* i with 0 <= i < matched_count that addresses an entry still in the store
\* and in Matched state.
C1_SelectionAddressesMatched ==
    is_some(state.selected) =>
        LET i == unwrap(state.selected) IN
        /\ 0 <= i
        /\ i < matched_count(matches)
        /\ i < Len(matches)
        /\ is_some(matches[i + 1].score)

\* C2: right after set_filter, clear_filter, push_option, push_options or
\* set_options the selection is Some(0) when an entry is Matched and None
\* when none is, also on a non-empty store in which nothing matches.
C2_ResetAfterRescoring ==
    last_call \in RescoringCalls =>
        state.selected = reset_to_matched(matches)

\* C3: right after remove_option or remove_options the selection is Some(0)
\* when an entry remains Matched and None otherwise; it never keeps an index
\* from before the removal.
C3_ResetAfterRemoval ==
    last_call \in { "remove_option", "remove_options" } =>
        state.selected = reset_to_matched(matches)

\* C4: select_next from Some(i) gives Some(min(i + 1, matched_count - 1)) and
\* never lands on an entry that is not Matched.
C4_SelectNextSaturatesAtLastMatched ==
    (last_call = "select_next" /\ is_some(old_selected)) =>
        /\ state.selected =
              Some(Min(unwrap(old_selected) + 1, matched_count(matches) - 1))
        /\ is_some(get_index(matches, unwrap(state.selected)))
        /\ is_some(unwrap(get_index(matches, unwrap(state.selected))).score)

\* C5: select_prev from Some(i) with i > 0 gives Some(i - 1), from Some(0)
\* gives Some(0); it never gives None from a selected state.
C5_SelectPrevStepsBack ==
    (last_call = "select_prev" /\ is_some(old_selected)) =>
        state.selected =
            Some(IF unwrap(old_selected) > 0
                 THEN unwrap(old_selected) - 1 ELSE 0)

\* C6: select_next and select_prev from None give Some(0) when an entry is
\* Matched and leave None when none is, in particular on an empty store.
C6_UnselectedStepResets ==
    (last_call \in { "select_next", "select_prev" } /\ is_none(old_selected))
        => state.selected = reset_to_matched(matches)

C6_Witness ==
    /\ last_call \in { "select_next", "select_prev" }
    /\ is_none(old_selected)
    /\ is_none(state.selected)
    /\ matches = <<>>

\* C7: selection() returns nothing when the cursor is None or past the end of
\* the store; when it returns a value for Some(i), that value is the text,
\* score and indices cached at rank i, and it does return one whenever rank i
\* holds a Matched entry.
C7_SelectionReturnsSelectedRank ==
    last_call = "selection" =>
        IF is_none(state.selected) THEN is_none(ret)
        ELSE LET i == unwrap(state.selected) IN
             IF i >= Len(matches) THEN is_none(ret)
             ELSE LET e == matches[i + 1] IN
                  IF is_none(e.score) THEN is_none(ret)
                  ELSE /\ is_some(ret)
                       /\ unwrap(ret).value = e.key
                       /\ unwrap(ret).score = unwrap(e.score).score
                       /\ unwrap(ret).indices = unwrap(e.score).indices

C7_Witness ==
    /\ last_call = "selection"
    /\ is_some(ret)
    /\ is_some(state.selected)
    /\ unwrap(state.selected) = 1
    /\ Len(matches) = 3
    /\ unwrap(ret).value = matches[2].key

\* C8: for every pair of Matched entries in iteration order the earlier
\* entry's score is >= the later entry's score.
C8_RankMonotone ==
    \A i, j \in 1..Len(matches) :
        (i < j /\ is_some(matches[i].score) /\ is_some(matches[j].score))
            => unwrap(matches[i].score).score >= unwrap(matches[j].score).score

C8_Witness ==
    /\ Len(matches) = 3
    /\ is_some(matches[1].score)
    /\ is_some(matches[2].score)
    /\ unwrap(matches[1].score).score > unwrap(matches[2].score).score
    /\ inserted_at(matches[1].key) > inserted_at(matches[2].key)
    /\ last_call \in RescoringCalls

\* C9: every Matched entry precedes every entry whose cached result is None;
\* no None entry is followed by a Matched entry.
C9_MatchedBeforeNone ==
    \A i, j \in 1..Len(matches) :
        (i < j /\ is_none(matches[i].score)) => is_none(matches[j].score)

C9_Witness ==
    /\ Len(matches) = 3
    /\ is_some(matches[1].score)
    /\ is_some(matches[2].score)
    /\ is_none(matches[3].score)
    /\ last_call \in RescoringCalls

\* C10: after any rescoring call, Matched entries with equal score are in
\* original insertion order.
C10_TiesInInsertionOrder ==
    last_call \in RescoringCalls =>
        \A i, j \in 1..Len(matches) :
            (/\ i < j
             /\ is_some(matches[i].score)
             /\ is_some(matches[j].score)
             /\ unwrap(matches[i].score).score = unwrap(matches[j].score).score)
                => inserted_at(matches[i].key) < inserted_at(matches[j].key)

\* the items of a list
items_of(list) == { list[i] : i \in 1..Len(list) }

\* the entry of store m with key k (the store holds k)
entry_of(m, k) == m[CHOOSE i \in 1..Len(m) : m[i].key = k]

\* every entry's cached result is the scorer's result under filter f
all_scored_against(m, f) ==
    \A i \in 1..Len(m) : m[i].score = fuzzy_indices(m[i].key, f)

C12_SetFilterRescoresAll ==
    last_call = "set_filter" =>
        /\ filter = last_arg
        /\ keys_of(matches) = keys_of(old_matches)
        /\ all_scored_against(matches, last_arg)

C12_Witness ==
    /\ last_call = "set_filter"
    /\ filter # old_filter
    /\ Len(matches) = 3
    /\ \E k \in keys_of(matches) :
          /\ is_some(entry_of(old_matches, k).score)
          /\ is_some(entry_of(matches, k).score)
          /\ entry_of(old_matches, k).score # entry_of(matches, k).score

\* C13: the incremental pass of push_option / push_options invokes the scorer
\* only on entries never evaluated against the current filter; an entry that
\* was in the store before the call, also one evaluated to no match, is not
\* evaluated again.
C13_IncrementalPassSkipsEvaluated ==
    last_call \in { "push_option", "push_options" } =>
        scored \cap keys_of(old_matches) = {}

\* C14: pushing a key the store already holds creates no second entry and
\* leaves its cached result as it was; the store never holds a key twice.
C14_PushExistingKeyKeepsEntry ==
    /\ Cardinality(keys_of(matches)) = Len(matches)
    /\ last_call \in { "push_option", "push_options" } =>
          LET pushed == IF last_call = "push_option" THEN { last_arg }
                        ELSE items_of(last_arg) IN
          /\ \A k \in pushed \cap keys_of(old_matches) :
                /\ Cardinality({ i \in 1..Len(matches) :
                                    matches[i].key = k }) = 1
                /\ entry_of(matches, k).score = entry_of(old_matches, k).score
          /\ pushed \subseteq keys_of(old_matches) =>
                Len(matches) = Len(old_matches)

C14_Witness ==
    /\ last_call = "push_options"
    /\ Len(last_arg) = 2
    /\ items_of(last_arg) \subseteq keys_of(old_matches)
    /\ Len(matches) = 3
    /\ matched_count(matches) = 2
    /\ filter # <<>>

\* C15: remove_option / remove_options removes exactly the entries whose keys
\* are given: every other entry stays with its cached result, the order of
\* the remaining entries is unchanged, removing an absent key changes nothing.
C15_RemoveOnlyGivenKeys ==
    last_call \in { "remove_option", "remove_options" } =>
        LET gone == IF last_call = "remove_option" THEN { last_arg }
                    ELSE items_of(last_arg) IN
        matches = SelectSeq(old_matches, LAMBDA e : e.key \notin gone)

C15_Witness ==
    /\ last_call = "remove_options"
    /\ Len(old_matches) = 2
    /\ Len(matches) = 1
    /\ Len(last_arg) = 2
    /\ old_matches[1].key \in items_of(last_arg)
    /\ \E k \in items_of(last_arg) : k \notin keys_of(old_matches)

\* C16: after set_options(S) or with_options(S) the key set is the set of
\* distinct items of S, every entry is scored against the current filter and
\* the filter is unchanged.
C16_SetOptionsReplacesStore ==
    last_call \in { "set_options", "with_options" } =>
        /\ keys_of(matches) = items_of(last_arg)
        /\ Len(matches) = Cardinality(items_of(last_arg))
        /\ all_scored_against(matches, filter)
        /\ filter = old_filter

C16_Witness ==
    /\ last_call = "set_options"
    /\ Len(old_matches) = 3
    /\ Len(last_arg) = 2
    /\ Len(matches) = 1
    /\ filter = <<"b">>

\* what set_filter(f) leaves when entered with the store old_matches
SetFilterResult(f) ==
    /\ filter = f
    /\ matches \in update_matches(old_matches, f, TRUE)
    /\ state.selected = reset_selection(matches)
    /\ all_scored_against(matches, f)
    /\ is_none(ret)

\* C17: clear_filter() leaves what set_filter("") leaves from the same state:
\* the same filter, cached results, ranked view and selection.
C17_ClearFilterIsSetFilterEmpty ==
    /\ last_call = "clear_filter" => SetFilterResult(<<>>)
    /\ last_call = "set_filter" => SetFilterResult(last_arg)

C17_Witness ==
    /\ last_call = "clear_filter"
    /\ old_filter = <<"a">>
    /\ Len(old_matches) = 3
    /\ is_none(old_matches[3].score)
    /\ old_selected = Some(2)

\* C18: with the scorer matching every text against the empty filter, while
\* the filter is "" every entry is Matched after push_option, push_options or
\* set_options, so matched_count is the store size.
C18_EmptyFilterMatchesAll ==
    (filter = <<>> /\ last_call \in { "push_option", "push_options",
                                      "set_options", "with_options" }) =>
        matched_count(matches) = Len(matches)

C18_Witness ==
    /\ filter = <<>>
    /\ last_call = "push_options"
    /\ Len(matches) = 3
    /\ Len(old_matches) = 1
    /\ matched_count(matches) = 3

\* C26: every public method completes from every reachable state, also on the
\* empty store, with the empty filter, an empty option list or an absent key,
\* and never leaves a selection that is not a usize; on the empty store
\* select_next and select_prev leave the selection None and selection()
\* returns nothing.
C26_OperationsTotal ==
    /\ is_some(state.selected) => unwrap(state.selected) \in Nat
    /\ (last_call \in { "select_next", "select_prev" } /\ matches = <<>>)
          => is_none(state.selected)
    /\ (last_call = "selection" /\ matches = <<>>) => is_none(ret)
    /\ ENABLED clear_filter
    /\ \A f \in Filters : ENABLED set_filter(f)
    /\ ENABLED select_next
    /\ ENABLED select_prev
    /\ ENABLED selection
    /\ ENABLED push_options(<<>>)
    /\ ENABLED set_options(<<>>)
    /\ ENABLED remove_options(<<>>)
    /\ \A option \in Options :
          /\ ENABLED push_option(option)
          /\ ENABLED remove_option(option)

\* C29: whenever a public method has returned, every entry's cached result
\* is the scorer's result for (its text, the current filter), as a full pass
\* would leave it; the incremental pass leaves no entry unevaluated.
C29_IncrementalEqualsFull ==
    /\ all_scored_against(matches, filter)
    /\ score_pass(matches, filter, TRUE) = matches

C29_Witness ==
    /\ last_call = "push_option"
    /\ filter = <<"a">>
    /\ Len(old_matches) = 2
    /\ Len(matches) = 3
    /\ scored = { last_arg }
    /\ matched_count(matches) = 2

\* Ordering::reverse
reverse(o) ==
    IF o = "Less" THEN "Greater" ELSE IF o = "Greater" THEN "Less" ELSE "Equal"

\* the cached results held by the store
cached_results(m) == { m[i].score : i \in 1..Len(m) }

\* C30: the comparison used to sort the store is a consistent total order
\* over cached results: compare(a, b) is the reverse of compare(b, a), also
\* when both are None and when both are Matched with equal score, and it is
\* transitive.
C30_CompareConsistent ==
    /\ \A a, b \in cached_results(matches) :
          sort_compare(a, b) = reverse(sort_compare(b, a))
    /\ \A a, b, c \in cached_results(matches) :
          (sort_compare(a, b) # "Greater" /\ sort_compare(b, c) # "Greater")
              => sort_compare(a, c) # "Greater"

\* the text a line shows
RECURSIVE line_text(_)
line_text(line) ==
    IF line = <<>> THEN <<>>
    ELSE Head(line).content \o line_text(Tail(line))

\* the 1-based ranks of the Matched entries whose segmentation succeeds
renderable(m) ==
    { i \in 1..Len(m) :
        /\ is_some(m[i].score)
        /\ is_ok(sections_from_stringdices(m[i].key,
                                            unwrap(m[i].score).indices)) }

\* the 1-based rank of the entry a line was built from
rank_of_line(m, line) ==
    CHOOSE i \in renderable(m) : m[i].key = line_text(line)

\* C25: when render builds the rows, a Matched entry whose segmentation
\* fails is skipped on its own: every row is the line of a Matched entry
\* that segments, the rows are in rank order, and every such entry with
\* fewer than height + selected such entries before it has its row, also
\* when a failing entry ranks before it.
C25_FailingRowSkippedAlone ==
    last_call = "render" =>
        LET rows == unwrap(rd_list)
            n == rd_height + (IF is_some(state.selected)
                              THEN unwrap(state.selected) ELSE 0)
        IN
        /\ is_some(rd_list)
        /\ \A k \in 1..Len(rows) :
              \E i \in renderable(matches) :
                  /\ matches[i].key = line_text(rows[k])
                  /\ Ok(rows[k]) = styled_line(matches[i].key,
                                               unwrap(matches[i].score).indices)
        /\ \A k \in 1..(Len(rows) - 1) :
              rank_of_line(matches, rows[k]) < rank_of_line(matches, rows[k + 1])
        /\ \A i \in renderable(matches) :
              Cardinality({ j \in renderable(matches) : j < i }) < n
                  => \E k \in 1..Len(rows) : line_text(rows[k]) = matches[i].key

C25_Witness ==
    /\ last_call = "render"
    /\ Len(matches) = 3
    /\ matched_count(matches) = 3
    /\ renderable(matches) = { 1, 3 }
    /\ is_some(rd_list)
    /\ Len(unwrap(rd_list)) = 2
    /\ line_text(unwrap(rd_list)[2]) = matches[3].key

\* C27: whatever the order in which the scoring tasks of a pass run, during
\* the pass every entry whose task has run holds the scorer's result for its
\* own text and the filter and every other entry is as it was when the pass
\* began; so the store at the end of the pass is the same for every order.
C27_ScoringOrderIndependent ==
    up_pc \in { "score", "sort" } =>
        /\ Len(matches) = Len(up_start)
        /\ \A i \in 1..Len(matches) :
              matches[i] =
                  IF i \in tasks_of(up_start, up_flag) \ up_tasks
                  THEN [key   |-> up_start[i].key,
                        score |-> fuzzy_indices(up_start[i].key, filter)]
                  ELSE up_start[i]
        /\ up_tasks = {} => matches = score_pass(up_start, filter, up_flag)

C27_Witness ==
    /\ up_pc = "score"
    /\ Len(matches) = 3
    /\ up_flag
    /\ up_tasks = { 2 }
    /\ matches[1].score # up_start[1].score
    /\ matches[3].score # up_start[3].score

\* C28: within a rescoring operation the sort starts only after every
\* scoring task has run, the selection is reset only after the sort, the
\* operation returns only after the reset, and a caller reads the store only
\* when it is fully scored, in order and the selection reset.
C28_PhasesInOrder ==
    /\ up_pc \in { "sort", "reset", "return", "idle" } =>
          /\ up_tasks = {}
          /\ all_scored_against(matches, filter)
    /\ up_pc \in { "reset", "return", "idle" } => is_sorted(matches)
    /\ (up_pc \in { "return", "idle" } /\ last_call \in RescoringCalls) =>
          state.selected = reset_selection(matches)
    /\ last_call = "selection" =>
          /\ up_pc = "idle"
          /\ ret = selection_value(matches, state.selected)

C28_Witness ==
    /\ up_pc = "return"
    /\ Len(matches) = 3
    /\ matches # score_pass(up_start, filter, up_flag)
    /\ old_selected = Some(2)
    /\ state.selected = Some(0)

\* the selection addresses a Matched entry: selection() returns a candidate
selects_matched == is_some(selection_value(matches, state.selected))

\* C31: the row render highlights is the candidate selection() returns: for
\* the selected index i, row i of the rendered list is built from entry i of
\* the store, also when a Matched entry ranked before i fails segmentation
\* and is skipped.
C31_SelectedRowIsSelection ==
    (last_call = "render" /\ rd_height >= 1 /\ selects_matched) =>
        LET rows == unwrap(rd_list)
            i == unwrap(state.selected)
        IN
        /\ i < Len(rows)
        /\ line_text(rows[i + 1]) = unwrap(selection_value(matches,
                                                          state.selected)).value
        /\ Ok(rows[i + 1]) = styled_line(matches[i + 1].key,
                                         unwrap(matches[i + 1].score).indices)

\* C35: render builds rows only from Matched entries, in rank order, and at
\* most height + selected of them; when the height is at least 1 and the
\* selection addresses a Matched entry, the rows contain the selected row.
C35_WindowHoldsSelectedRow ==
    last_call = "render" =>
        LET rows == unwrap(rd_list)
            sel == IF is_some(state.selected) THEN unwrap(state.selected)
                   ELSE 0
        IN
        /\ \A k \in 1..Len(rows) :
              \E i \in 1..Len(matches) :
                  /\ is_some(matches[i].score)
                  /\ matches[i].key = line_text(rows[k])
        /\ \A k \in 1..(Len(rows) - 1) :
              rank_of_line(matches, rows[k]) < rank_of_line(matches, rows[k + 1])
        /\ Len(rows) <= rd_height + sel
        /\ (rd_height >= 1 /\ selects_matched) =>
              \E k \in 1..Len(rows) :
                  line_text(rows[k]) = matches[sel + 1].key

\* C32: with no removals, the selection is None exactly when the store is
\* empty, otherwise its index is smaller than the number of entries; right
\* after a rescoring call on a store with entries the index is 0.
C32_SelectionWithinStore ==
    /\ is_none(state.selected) <=> matches = <<>>
    /\ is_some(state.selected) => unwrap(state.selected) < Len(matches)
    /\ (last_call \in RescoringCalls /\ matches # <<>>) =>
          state.selected = Some(0)

C32_Witness ==
    /\ last_call = "select_next"
    /\ Len(matches) = 3
    /\ old_selected = Some(2)
    /\ state.selected = Some(2)

\* C33: select_next, select_prev and selection change nothing but the
\* cursor: the filter and the store (entries, order, cached results) are
\* after the call what they were before.
C33_CursorCallsKeepStore ==
    last_call \in { "select_next", "select_prev", "selection" } =>
        /\ filter = old_filter
        /\ matches = old_matches

C33_Witness ==
    /\ last_call = "selection"
    /\ is_some(ret)
    /\ Len(matches) = 3
    /\ matched_count(matches) = 2
    /\ state.selected = Some(1)

\* C34: set_filter and clear_filter never add or remove candidates: the keys
\* in the store are after the call what they were before, for every filter,
\* also one that matches nothing.
C34_FilterKeepsKeys ==
    last_call \in { "set_filter", "clear_filter" } =>
        /\ keys_of(matches) = keys_of(old_matches)
        /\ Len(matches) = Len(old_matches)

C34_Witness ==
    /\ last_call = "set_filter"
    /\ Len(matches) = 1
    /\ matched_count(old_matches) = 1
    /\ matched_count(matches) = 0

\* ------------------------------------------------------- segmenter claims
strictly_ascending(indices) ==
    \A k \in 1..(Len(indices) - 1) : indices[k] < indices[k + 1]

\* a strictly ascending list of character positions of the text
valid_indices(string, indices) ==
    /\ strictly_ascending(indices)
    /\ \A k \in 1..Len(indices) : indices[k] < Len(string)

\* the texts of the segments, one after the other
RECURSIVE concat_texts(_)
concat_texts(sections) ==
    IF sections = <<>> THEN <<>>
    ELSE Head(sections).text \o concat_texts(Tail(sections))

\* the decomposition the index list describes: going through the characters
\* from 1-based place k on, a character joins the last segment when it is of
\* the same kind (its 0-based position is in the list or not), else it opens
\* a new segment
RECURSIVE reference_from(_, _, _, _)
reference_from(string, indices, k, acc) ==
    IF k > Len(string) THEN acc
    ELSE LET kind == IF \E n \in 1..Len(indices) : indices[n] = k - 1
                     THEN "Matched" ELSE "None"
             last == Len(acc)
         IN  IF last > 0 /\ acc[last].kind = kind
             THEN reference_from(string, indices, k + 1,
                     [acc EXCEPT ![last].text = Append(@, string[k])])
             ELSE reference_from(string, indices, k + 1,
                     Append(acc, [kind |-> kind, text |-> <<string[k]>>]))

reference_sections(string, indices) == reference_from(string, indices, 1, <<>>)

\* C19: for any text and any strictly ascending, duplicate-free, in-bounds
\* index list the call succeeds and the segments' texts, concatenated in
\* order, are the text.
C19_SegmentsConcatenateToText ==
    (is_some(hl_ret) /\ valid_indices(hl_string, hl_indices)) =>
        /\ is_ok(unwrap(hl_ret))
        /\ concat_texts(unwrap(hl_ret).val) = hl_string

\* C20: for any valid index list the segments are the reference
\* decomposition: a position is in a Matched segment exactly when it is in
\* the list, each maximal run of consecutive indices is one Matched segment
\* and the gaps are the None segments; no indices over a non-empty text give
\* one None segment and the empty text gives no segment.
C20_SegmentsAreReference ==
    (is_some(hl_ret) /\ valid_indices(hl_string, hl_indices)) =>
        /\ is_ok(unwrap(hl_ret))
        /\ unwrap(hl_ret).val = reference_sections(hl_string, hl_indices)

\* C21: in every successful result no two adjacent segments have the same
\* kind and no segment has empty text.
C21_SegmentsAlternateNonEmpty ==
    (is_some(hl_ret) /\ is_ok(unwrap(hl_ret))) =>
        LET s == unwrap(hl_ret).val IN
        /\ \A k \in 1..Len(s) : s[k].text # <<>>
        /\ \A k \in 1..(Len(s) - 1) : s[k].kind # s[k + 1].kind

C21_Witness ==
    /\ is_some(hl_ret)
    /\ is_ok(unwrap(hl_ret))
    /\ Len(hl_indices) = 2
    /\ Len(unwrap(hl_ret).val) = 3
    /\ unwrap(hl_ret).val[1].kind = "Matched"
    /\ unwrap(hl_ret).val[3].kind = "Matched"

\* C22: the call fails, and returns no segments, whenever the index list is
\* not strictly ascending or holds a duplicate; such a list is never
\* accepted.
C22_UnorderedIndicesFail ==
    (is_some(hl_ret) /\ ~strictly_ascending(hl_indices)) =>
        ~is_ok(unwrap(hl_ret))

\* an index that addresses no character of the text: at or past the end of
\* the text, or inside a multi-byte character
addresses_no_char(string, m) ==
    \/ m >= str_len(string)
    \/ ~is_char_boundary(string, m)

\* C23: the call fails with an error value whenever some index addresses a
\* position outside the text (also any index over the empty text) or a
\* position that is not the start of a character.
C23_BadPositionFails ==
    (/\ is_some(hl_ret)
     /\ \E k \in 1..Len(hl_indices) :
           addresses_no_char(hl_string, hl_indices[k]))
        => ~is_ok(unwrap(hl_ret))

\* the text holds a character of more than one byte
has_multi_byte(string) == \E k \in 1..Len(string) : len_utf8(string[k]) > 1

\* the characters of the Matched segments, in order
RECURSIVE matched_chars(_)
matched_chars(sections) ==
    IF sections = <<>> THEN <<>>
    ELSE (IF Head(sections).kind = "Matched" THEN Head(sections).text
          ELSE <<>>) \o matched_chars(Tail(sections))

\* the characters of the text at the given 0-based character positions
chars_at(string, indices) == [k \in 1..Len(indices) |-> string[indices[k] + 1]]

\* C24: for a text with multi-byte characters and a strictly ascending list
\* of character positions, all smaller than the number of characters, the
\* call returns no error and the Matched segments are exactly the characters
\* at those positions.
C24_MultiByteTextSucceeds ==
    (/\ is_some(hl_ret)
     /\ has_multi_byte(hl_string)
     /\ valid_indices(hl_string, hl_indices))
        => /\ is_ok(unwrap(hl_ret))
           /\ matched_chars(unwrap(hl_ret).val) = chars_at(hl_string, hl_indices)

====
